---------------------------- MODULE Spec2Model ----------------------------
(***************************************************************************)
(* A model of the janus-videoroom-web-sdk client:                          *)
(*   - RemoteTrackMap            (track.ts, src/unnamed/part_004)          *)
(*   - SignalClient              (src/src/signal.ts)                       *)
(*   - JanusClient               (client.ts, src/unnamed/part_001)         *)
(* Every async function is a process whose program counter stops at each   *)
(* await; every callback (timer, socket event, media event, inbound        *)
(* message) is one action.                                                 *)
(***************************************************************************)
EXTENDS Integers, Sequences, FiniteSets, Bags, TLC

(***************************************************************************)
(* Bounds of the model.                                                    *)
(***************************************************************************)
MaxRows == 1        \* rows of one subscribe/join response
MaxRequests == 1    \* SignalClient.request calls (transaction ids 1..MaxRequests)
MaxChains == 1      \* reconnect timers pending plus reconnect attempts in flight
MaxSubscribes == 2  \* JanusClient.subscribe calls
MaxOnTracks == 2    \* ontrack events for the inbound track of one transceiver
MaxMutes == 2       \* mute events of that track
MaxTracks == 2      \* local tracks in a publish

\* null / undefined results of the lookups
NoUser == 0
NoTrack == [id |-> 0, mid |-> "-"]

\* remote users (feeds), media-line ids and the kind of a publisher's media line
UserIds == {7, 9}
Mids == {"0", "1"}
KindOf(mid) == IF mid = "0" THEN "audio" ELSE "video"

VARIABLES
    trackMap,       \* JanusClient.trackMap : [map, tracks]
    lastRows,       \* subscription.tracksMap most recently applied by doSubscribe
    signal,         \* SignalClient scalar fields : ws, isConnected, sessionId, ...
    ignoreAckRequests,  \* SignalClient.ignoreAckRequests : the set of its keys
    transactionEmitter, \* the transaction ids with a listener on transactionEmitter
    requests,       \* the request() calls made so far, indexed by transaction id
    lastOp,         \* name of the client operation performed by the last step
                    \* (the steps of the SignalClient correlator leave it alone)
    client,         \* JanusClient scalar fields : _connectionState, isJoined, ...
    emitted,        \* the connection-state-change events emitted by the last step
    timers,         \* the pending setTimeout callbacks of handleDisconnect (a bag)
    attempts,       \* the reconnect callbacks suspended at an await (a bag)
    calls,          \* connect / leave / join / unpublish : where each is suspended
    sinceStart,     \* Date.now() - reconnectStart in units of 300 ms, saturated
    tasks,          \* the subscribe() calls made so far : where each doSubscribe is
    subscribeQueue, \* JanusClient.subscribeQueue : which PromiseQueue object it is
    innerEmitter,   \* the "ontrack" listeners of innerEmitter, in registration order
    remoteUsers,    \* JanusClient.remoteUsers : userId -> [audioTrack, videoTrack]
    sent,           \* the session request ("create", "claim") the last step wrote
    caught,         \* the code of the error the last step's catch block caught
    mediaStreamTrack,   \* JanusTrack.mediaStreamTrack of each RemoteTrack object :
                        \* the negotiation that made the inbound track it holds
    inbound         \* the inbound track of one transceiver of the subscriber peer
                    \* connection, its handlers and the onmuteTimer closures

trackVars == <<trackMap, lastRows>>
signalVars == <<signal, ignoreAckRequests, transactionEmitter, requests>>
clientVars == <<client, emitted, timers, attempts, calls, sinceStart, tasks,
                subscribeQueue, innerEmitter, remoteUsers, sent, caught,
                mediaStreamTrack, inbound>>
vars == <<trackMap, lastRows, signal, ignoreAckRequests, transactionEmitter, requests,
          lastOp, client, emitted, timers, attempts, calls, sinceStart, tasks,
          subscribeQueue, innerEmitter, remoteUsers, sent, caught, mediaStreamTrack,
          inbound>>

---------------------------------------------------------------------------
(***************************************************************************)
(* RemoteTrackMap                                                          *)
(***************************************************************************)

\* interface TrackMidMap
TrackMidMap ==
    {[type |-> KindOf(t), userId |-> u, tmpMid |-> t, formalMid |-> f] :
        u \in UserIds, t \in Mids, f \in Mids}

\* class RemoteTrack : the objects announced by user-published, each for the
\* publisher's media line mid
RemoteTrack ==
    {[id |-> 1, mid |-> "0"], [id |-> 2, mid |-> "1"], [id |-> 3, mid |-> "1"]}

\* Array.prototype.find : the index of the first element satisfying P, 0 when
\* there is none (find then returns undefined)
\* (I is the set of the indexes whose element satisfies the predicate)
Find(I) == IF I = {} THEN 0 ELSE CHOOSE i \in I : \A j \in I : i <= j

\* new RemoteTrackMap() : map = [], tracks = new Map()
NewTrackMap == [map |-> <<>>, tracks |-> [k \in Mids |-> NoTrack]]

UpdateMerging(tm, map) == [tm EXCEPT !.map = map \o tm.map]

\* RemoteTrackMap.update
Update(tm, map) == [tm EXCEPT !.map = map]

\* RemoteTrackMap.setTrack
SetTrack(tm, userId, tmpMid, track) ==
    LET item == Find({i \in DOMAIN tm.map :
                        tm.map[i].userId = userId /\ tm.map[i].tmpMid = tmpMid})
    IN  IF item # 0
        THEN [tm EXCEPT !.tracks[tm.map[item].formalMid] = track]
        ELSE tm

\* RemoteTrackMap.getTrack
GetTrack(tm, formalMid) == tm.tracks[formalMid]

\* RemoteTrackMap.getUser
GetUser(tm, formalMid) ==
    LET item == Find({i \in DOMAIN tm.map : tm.map[i].formalMid = formalMid})
    IN  IF item = 0 THEN NoUser ELSE tm.map[item].userId

\* RemoteTrackMap.clear
Clear(tm) == [tm EXCEPT !.map = <<>>, !.tracks = [k \in Mids |-> NoTrack]]

\* the tables a subscribe/join response can carry
Tables == UNION {[1..n -> TrackMidMap] : n \in 0..MaxRows}

\* JanusClient.doSubscribe, the synchronous part that applies the response:
\*   this.trackMap.update(subscription.tracksMap);
\*   this.trackMap.setTrack(userId, track.mid, track);
ApplySubscription(rows, userId, track) ==
    /\ trackMap' = SetTrack(Update(trackMap, rows), userId, track.mid, track)
    /\ lastRows' = rows
    /\ lastOp' = "applySubscription"
    /\ UNCHANGED <<signalVars, clientVars>>

\* JanusClient.reset : this.trackMap.clear()
ClearTrackMap ==
    /\ trackMap' = Clear(trackMap)
    /\ lastRows' = <<>>
    /\ lastOp' = "clearTrackMap"
    /\ UNCHANGED <<signalVars, clientVars>>

---------------------------------------------------------------------------
(***************************************************************************)
(* SignalClient : the transaction correlator                               *)
(***************************************************************************)

\* new SignalClient() : every optional field undefined (FALSE), isConnected false
NewSignal ==
    [ws |-> FALSE, isConnected |-> FALSE, server |-> "", sessionId |-> FALSE,
     publisherId |-> FALSE, subscriberId |-> FALSE, roomId |-> FALSE,
     userPrivateId |-> FALSE, keepAliveTimerId |-> FALSE]

\* the callers of request() : kind |-> <<handleType, ignoreAck>>
\*   create            createSession          request({janus: "create"})
\*   attach            attach("publisher")    request({janus: "attach", ...})
\*   keepalive         keep-alive timer       request({janus: "keepalive"})
\*   destroy           destroy                request({janus: "destroy"})
\*   publisherMessage  joinPublisher, ...     request(.., "publisher", true)
\*   subscriberMessage joinSubscriber, ...    request(.., "subscriber", true)
RequestKinds ==
    {"create", "attach", "keepalive", "destroy", "publisherMessage", "subscriberMessage"}
HandleTypeOf(kind) ==
    CASE kind = "publisherMessage" -> "publisher"
      [] kind = "subscriberMessage" -> "subscriber"
      [] OTHER -> "none"
IgnoreAckOf(kind) == kind \in {"publisherMessage", "subscriberMessage"}

\* request() taking the handle id for granted
HandleIdAssumed(sig, handleType) == TRUE

\* request() : params.handle_id of a handle-scoped request
HandleId(sig, handleType) ==
    IF handleType = "publisher" THEN sig.publisherId ELSE sig.subscriberId

\* EventEmitter.on : a listener that stays registered after it has fired
OnFired(listeners, tid) == listeners

\* EventEmitter.once : the listener is removed when the event fires
OnceFired(listeners, tid) == listeners \ {tid}

\* SignalClient.close
SignalClosed(sig) ==
    [sig EXCEPT !.ws = FALSE, !.keepAliveTimerId = FALSE, !.isConnected = FALSE,
                !.roomId = FALSE, !.sessionId = FALSE, !.publisherId = FALSE,
                !.subscriberId = FALSE, !.userPrivateId = FALSE]

\* class LocalTrack : the kind of its media track and its bitrate (0 when
\* undefined), and the track lists of a publish
Budgets == {0, 32, 500}
LocalTrack == [kind : {"audio", "video"}, bitrate : Budgets]
TrackLists == UNION {[1..n -> LocalTrack] : n \in 0..MaxTracks}

\* configureMedia : audioBitrate, videoBitrate after tracks.forEach
RECURSIVE Bitrate(_, _)
Bitrate(tracks, kind) ==
    IF tracks = <<>> THEN 0
    ELSE Bitrate(Tail(tracks), kind)
            + (IF Head(tracks).kind = kind THEN Head(tracks).bitrate ELSE 0)

\* configureMedia : body.bitrate, NoBitrate when the body has no such field
NoBitrate == -1
BodyBitrate(tracks) ==
    LET audioBitrate == Bitrate(tracks, "audio")
        videoBitrate == Bitrate(tracks, "video")
    IN  IF videoBitrate > 0 THEN (videoBitrate + audioBitrate) * 1000 ELSE NoBitrate

\* of a request the model notes that close() ran while it was pending
Abandoned(reqs) ==
    [tid \in DOMAIN reqs |->
        IF reqs[tid].state = "pending" THEN [reqs[tid] EXCEPT !.closed = TRUE]
        ELSE reqs[tid]]

\* the local ICE candidates of a gathering ; the candidate field of a trickle
\* body : one of them, { completed: true }, or no such field
Candidates == {1, 2}
Completed == 0
NoCandidate == -1

\* SignalClient.request, up to its await: the transaction id is fresh, the
\* ignoreAck entry is set, a handle-scoped request without handle id throws in
\* the promise executor (the catch block removes the listeners and rethrows),
\* otherwise the message is written to the socket if there is one and the
\* once-listener is registered. (tracks : the local tracks from which
\* configureMedia has built the body, none for the other callers ; local : the
\* candidate sendCandidate was called with ; candidate : params.candidate)
RequestParams(kind, handleType, tracks, local, candidate) ==
    LET tid == Len(requests) + 1
        ignoreAck == IgnoreAckOf(kind)
        noHandle == handleType # "none" /\ ~HandleId(signal, handleType)
    IN  /\ Len(requests) < MaxRequests
        /\ ignoreAckRequests' =
              IF ignoreAck THEN ignoreAckRequests \cup {tid} ELSE ignoreAckRequests
        /\ requests' = Append(requests,
              [kind |-> kind, ignoreAck |-> ignoreAck, sent |-> (~noHandle /\ signal.ws),
               state |-> IF noHandle THEN "rejected" ELSE "pending",
               by |-> IF noHandle THEN "throw" ELSE "none",
               error |-> IF noHandle THEN "UNEXPECTED_ERROR" ELSE "none",
               info |-> "none", acked |-> FALSE, got |-> "none", late |-> FALSE,
               closed |-> FALSE, tracks |-> tracks, bitrate |-> BodyBitrate(tracks),
               local |-> local, candidate |-> candidate])
        /\ transactionEmitter' =
              IF noHandle THEN transactionEmitter ELSE transactionEmitter \cup {tid}
        /\ UNCHANGED <<signal, trackVars, lastOp, clientVars>>

\* a request() of one of the callers that do not trickle
RequestBody(kind, tracks) ==
    RequestParams(kind, HandleTypeOf(kind), tracks, NoCandidate, NoCandidate)

\* a request() of one of the callers whose body has no bitrate
Request(kind) == RequestBody(kind, <<>>)

\* SignalClient.sendCandidate up to the await of its request :
\*   request({janus: "trickle", candidate: { completed: true }}, handleType)
SendCandidate(candidate, handleType) ==
    RequestParams("sendCandidate", handleType, <<>>, candidate, Completed)

\* SignalClient.sendCandidateCompleted up to the await of its request
SendCandidateCompleted(handleType) ==
    RequestParams("sendCandidateCompleted", handleType, <<>>, NoCandidate, Completed)

\* SignalClient.configureMedia up to the await of its request
ConfigureMedia(tracks) == RequestBody("publisherMessage", tracks)

\* inbound frames : payload.janus, payload.transaction and the shape of the
\* payload ("error" : a top-level error object, "pluginError" : a nested
\* plugindata.data.error, "plain" : neither)
MessageTypes == {"ack", "success", "error", "event", "webrtcup"}
Shapes == {"plain", "error", "pluginError"}
Messages ==
    {m \in [type : MessageTypes, shape : Shapes] :
        m.type \in {"ack", "webrtcup"} => m.shape = "plain"}

\* the continuation of the caller once its request has resolved
\*   createSession : this.sessionId = created.data.id
\*   attach        : this.publisherId = attached.data.id
\*   destroy       : this.close()
Continue(sig, kind, type) ==
    CASE kind = "create" /\ type = "success" -> [sig EXCEPT !.sessionId = TRUE]
      [] kind = "attach" /\ type = "success" -> [sig EXCEPT !.publisherId = TRUE]
      [] kind = "destroy" -> SignalClosed(sig)
      [] OTHER -> sig

\* handleMessage emitting for every ack
EmitsEveryAck(type, tid) == type \in {"ack", "success", "error", "event"}

\* SignalClient.handleMessage : the frames for which it emits transaction:tid
Emits(type, tid) ==
    \/ type = "ack" /\ tid \notin ignoreAckRequests
    \/ type \in {"success", "error", "event"}

\* the listener without its two tests
RejectsNothing(seen) == FALSE

\* the listener of request() : payload?.error, payload?.plugindata?.data?.error
Rejects(seen) == seen \in {"error", "pluginError"}

\* SignalClient.handleMessage together with the listener of request() that the
\* emit runs, and the caller's continuation when the request resolves
\* (of a request the model notes the first ack frame, acked, and the shape of
\* the last frame of another type, got, that came with its transaction id)
HandleMessage(type, tid, shape) ==
    LET emits == Emits(type, tid)
        fires == emits /\ tid \in transactionEmitter
        \* an ack is emitted without payload
        seen == IF type = "ack" THEN "plain" ELSE shape
        req == [requests[tid] EXCEPT
                  !.acked = @ \/ type = "ack",
                  !.got = IF type \in {"success", "error", "event"} THEN shape ELSE @]
        settles == fires /\ req.state = "pending"
        resolves == settles /\ ~Rejects(seen)
    IN  /\ tid \in DOMAIN requests
        /\ requests[tid].sent
        /\ transactionEmitter' =
              IF resolves /\ req.kind = "destroy" THEN {}
              ELSE IF fires THEN OnceFired(transactionEmitter, tid)
              ELSE transactionEmitter
        /\ requests' =
              IF settles
              THEN LET settled ==
                        [requests EXCEPT ![tid] =
                          [req EXCEPT !.state = IF resolves THEN "resolved" ELSE "rejected",
                                      !.by = IF type = "ack" THEN "ack" ELSE "message",
                                      !.error = IF resolves THEN "none" ELSE "SIGNAL_ERROR"]]
                   IN  IF resolves /\ req.kind = "destroy" THEN Abandoned(settled)
                       ELSE settled
              ELSE IF emits /\ req.state # "pending"
              THEN [requests EXCEPT ![tid] = [req EXCEPT !.late = TRUE]]
              ELSE [requests EXCEPT ![tid] = req]
        /\ signal' = IF resolves THEN Continue(signal, req.kind, type) ELSE signal
        /\ ignoreAckRequests' =
              IF resolves /\ req.kind = "destroy" THEN {} ELSE ignoreAckRequests
        /\ UNCHANGED <<trackVars, lastOp, clientVars>>

\* the catch block of request() without removeAllListeners
KeepListeners(listeners, tid) == listeners

\* this.transactionEmitter.removeAllListeners(`transaction:${tid}`)
RemoveAllListeners(listeners, tid) == listeners \ {tid}

\* request() : the timer of promise-timeout fires before the listener did; the
\* catch block removes the listeners of the transaction and throws SIGNAL_ERROR
\* with a message that quotes the request (info)
RequestTimeout(tid) ==
    /\ tid \in DOMAIN requests
    /\ requests[tid].state = "pending"
    /\ transactionEmitter' = RemoveAllListeners(transactionEmitter, tid)
    /\ requests' = [requests EXCEPT ![tid] =
          [@ EXCEPT !.state = "rejected", !.by = "timeout", !.error = "SIGNAL_ERROR",
                    !.info = requests[tid].kind]]
    /\ UNCHANGED <<signal, ignoreAckRequests, trackVars, lastOp, clientVars>>

\* SignalClient.connect, ws.onopen : this.ws = ws
WsOpen ==
    /\ ~signal.ws
    /\ signal' = [signal EXCEPT !.ws = TRUE]
    /\ UNCHANGED <<ignoreAckRequests, transactionEmitter, requests, trackVars, lastOp,
                   clientVars>>

\* close without this.transactionEmitter.removeAllListeners()
CloseKeepingListeners ==
    /\ signal' = SignalClosed(signal)
    /\ ignoreAckRequests' = {}
    /\ requests' = Abandoned(requests)
    /\ UNCHANGED <<transactionEmitter, trackVars, lastOp, clientVars>>

\* SignalClient.close, called by the client
Close ==
    /\ signal' = SignalClosed(signal)
    /\ ignoreAckRequests' = {}
    /\ transactionEmitter' = {}
    /\ requests' = Abandoned(requests)
    /\ UNCHANGED <<trackVars, lastOp, clientVars>>

---------------------------------------------------------------------------
(***************************************************************************)
(* JanusClient : connection lifecycle                                      *)
(***************************************************************************)

maxReconnectRetries == 10
maxReconnectDuration == 60 * 1000

\* request(.., timeoutMs = 6000)
RequestTimeoutMs == 6000

\* the clock advances in units of 300 ms, the factor of the reconnect delay
TimeUnit == 300
Units(ms) == ms \div TimeUnit

\* Date.now() - reconnectStart is kept up to the first value beyond the cap;
\* while reconnectStart is 0 the difference is the time since 1970
Beyond == Units(maxReconnectDuration) + 1

\* const delay = (this.reconnectAttempts * this.reconnectAttempts) * 300
Delay(k) == (k * k) * 300

\* new JanusClient() ; reconnectStart is 0 or (1) the time of a stamp ;
\* a peer connection field is TRUE when it references an object ;
\* publishedTracks is the length of the list
NewClient ==
    [connectionState |-> "DISCONNECTED", isJoined |-> FALSE, reconnectAttempts |-> 0,
     reconnectStart |-> 0, publisherPc |-> FALSE, subscriberPc |-> FALSE,
     publishedTracks |-> 0]

\* the async functions of the client that are suspended at an await
Idle == [pc |-> "idle", live |-> FALSE]
NewCalls == [connect |-> Idle, leave |-> Idle, join |-> Idle, unpublish |-> Idle]

\* the state a handler works on, and the state it leaves behind
World ==
    [signal |-> signal, client |-> client, timers |-> timers, attempts |-> attempts,
     calls |-> calls, sinceStart |-> sinceStart, emitted |-> <<>>, op |-> "step",
     trackMap |-> trackMap, lastRows |-> lastRows, tasks |-> tasks,
     subscribeQueue |-> subscribeQueue, innerEmitter |-> innerEmitter,
     remoteUsers |-> remoteUsers, sent |-> "none", caught |-> "none",
     mediaStreamTrack |-> mediaStreamTrack, inbound |-> inbound]

\* lastOp names the steps the claims speak about: "failure" (a failure signal:
\* the socket closed, a peer connection failed), "attemptFailed" (the catch
\* block of a reconnect callback reschedules), "giveUpRetries" and
\* "giveUpDuration" (it gives up, the retry count reached or not),
\* "attemptSucceeded" (it reaches the end of its try block), "leave", "join",
\* "joinInvalidOperation", "unpublishedByTimer" and "unpublishedByEnded" (a
\* user-unpublished event is emitted for the callback of a mute timer, for an
\* ended event) ; every other step of the client is a "step"

Commit(w, op) ==
    /\ signal' = w.signal
    /\ client' = w.client
    /\ timers' = w.timers
    /\ attempts' = w.attempts
    /\ calls' = w.calls
    /\ sinceStart' = w.sinceStart
    /\ emitted' = w.emitted
    /\ trackMap' = w.trackMap
    /\ lastRows' = w.lastRows
    /\ tasks' = w.tasks
    /\ subscribeQueue' = w.subscribeQueue
    /\ innerEmitter' = w.innerEmitter
    /\ remoteUsers' = w.remoteUsers
    /\ sent' = w.sent
    /\ caught' = w.caught
    /\ mediaStreamTrack' = w.mediaStreamTrack
    /\ inbound' = w.inbound
    /\ lastOp' = op
    /\ UNCHANGED <<ignoreAckRequests, transactionEmitter, requests>>

\* changeConnectionState without the prevState !== state test
ChangeConnectionStateUnguarded(w, state, reason) ==
    LET prevState == w.client.connectionState
    IN  [w EXCEPT !.client.connectionState = state,
                  !.emitted = Append(@, [curr |-> state, prev |-> prevState,
                                         reason |-> reason])]

\* JanusClient.changeConnectionState
ChangeConnectionState(w, state, reason) ==
    LET prevState == w.client.connectionState
    IN  IF prevState # state
        THEN [w EXCEPT !.client.connectionState = state,
                       !.emitted = Append(@, [curr |-> state, prev |-> prevState,
                                              reason |-> reason])]
        ELSE w

\* a request whose listener was removed, or whose socket has closed, gets no
\* response any more
Dead(bag) ==
    LET S == {[a EXCEPT !.live = FALSE] : a \in DOMAIN bag}
        N(a) == IF a \in DOMAIN bag THEN bag[a] ELSE 0
    IN  [a \in S |-> N(a) + N([a EXCEPT !.live = TRUE])]

NoResponses(w) ==
    [w EXCEPT !.attempts = Dead(@),
              !.calls = [n \in DOMAIN @ |-> [@[n] EXCEPT !.live = FALSE]],
              !.tasks = [t \in DOMAIN @ |-> [@[t] EXCEPT !.live = FALSE]]]

\* SignalClient.close, called by leave (through destroy) and by the give-up
\* branch: also removes every listener of transactionEmitter
SignalClose(w) == NoResponses([w EXCEPT !.signal = SignalClosed(@)])

\* the steps of a doSubscribe from its first signaling request until its
\* promise settles
InFlightSteps == {"attaching", "joining", "subscribing", "negotiating", "awaitingTrack"}

\* new PromiseQueue(1) : a new object unless the current one is empty and idle,
\* as a new one then behaves
NewQueue(w) ==
    IF \E t \in DOMAIN w.tasks :
            /\ w.tasks[t].queue = w.subscribeQueue
            /\ w.tasks[t].pc \in InFlightSteps \cup {"queued"}
    THEN w.subscribeQueue + 1
    ELSE w.subscribeQueue

\* new Map() of remoteUsers
NoUsers == [u \in {} |-> 0]

\* JanusTrack.mediaStreamTrack : undefined, or the inbound track that the
\* negotiation of a doSubscribe (its number) or of an "updated" event produced
NoMedia == 0
Updated == 99
NoMediaStreamTracks == [id \in {track.id : track \in RemoteTrack} |-> NoMedia]

\* JanusTrack.stop of the track objects bound in remoteUsers
StopTracks(media, users) ==
    [id \in DOMAIN media |->
        IF \E u \in DOMAIN users : id \in {users[u].audioTrack, users[u].videoTrack}
        THEN NoMedia ELSE media[id]]

\* reset without this.trackMap.clear()
ResetKeepingTrackMap(w) ==
    [w EXCEPT !.client.publisherPc = FALSE, !.client.subscriberPc = FALSE,
              !.client.publishedTracks = 0, !.client.reconnectAttempts = 0,
              !.client.reconnectStart = 0, !.client.isJoined = FALSE,
              !.sinceStart = 0,
              !.mediaStreamTrack = StopTracks(@, w.remoteUsers),
              !.inbound.handlers = 0,
              !.remoteUsers = NoUsers, !.innerEmitter = <<>>,
              !.subscribeQueue = NewQueue(w)]

\* JanusClient.reset
Reset(w) ==
    [w EXCEPT !.client.publisherPc = FALSE, !.client.subscriberPc = FALSE,
              !.client.publishedTracks = 0, !.client.reconnectAttempts = 0,
              !.client.reconnectStart = 0, !.client.isJoined = FALSE,
              !.sinceStart = 0,
              !.mediaStreamTrack = StopTracks(@, w.remoteUsers),
              !.inbound.handlers = 0,
              !.remoteUsers = NoUsers, !.innerEmitter = <<>>,
              !.trackMap = Clear(@), !.lastRows = <<>>,
              !.subscribeQueue = NewQueue(w)]

\* JanusClient.handleDisconnect, up to and including setTimeout
HandleDisconnect(w, attemptsNext) ==
    IF ~attemptsNext /\ w.client.connectionState = "RECONNECTING"
    THEN w
    ELSE LET w1 == IF w.client.reconnectAttempts = 0
                   THEN [ChangeConnectionState(w, "RECONNECTING", "none")
                            EXCEPT !.client.reconnectStart = 1, !.sinceStart = 0]
                   ELSE w
             k == w1.client.reconnectAttempts
         IN  [w1 EXCEPT !.timers =
                @ (+) SetToBag({[remaining |-> Units(Delay(k))]})]

\* const duration = Date.now() - this.reconnectStart
Duration(w) == IF w.client.reconnectStart = 0 THEN Beyond ELSE w.sinceStart

\* this.reconnectAttempts >= maxReconnectRetries || duration > maxReconnectDuration
GiveUpLate(n, duration) ==
    n > maxReconnectRetries \/ duration > Units(maxReconnectDuration)
GiveUp(n, duration) ==
    n >= maxReconnectRetries \/ duration > Units(maxReconnectDuration)

\* the catch block of the reconnect callback, for an error of the given code
AttemptCatch(w, code) ==
    LET w1 == [w EXCEPT !.client.reconnectAttempts = @ + 1, !.caught = code]
    IN  IF GiveUp(w1.client.reconnectAttempts, Duration(w1))
        THEN [ChangeConnectionState(Reset(SignalClose(w1)), "DISCONNECTED", "none")
                EXCEPT !.op = IF w1.client.reconnectAttempts >= maxReconnectRetries
                              THEN "giveUpRetries" ELSE "giveUpDuration"]
        ELSE [HandleDisconnect(w1, TRUE) EXCEPT !.op = "attemptFailed"]

\* the end of the try block without this.reconnectAttempts = 0
AttemptSucceedKeepingCount(w) ==
    ChangeConnectionState(
        [w EXCEPT !.client.reconnectStart = 0,
                  !.sinceStart = 0, !.op = "attemptSucceeded"],
        "CONNECTED", "none")

\* the end of the try block of the reconnect callback
AttemptSucceed(w) ==
    ChangeConnectionState(
        [w EXCEPT !.client.reconnectAttempts = 0, !.client.reconnectStart = 0,
                  !.sinceStart = 0, !.op = "attemptSucceeded"],
        "CONNECTED", "none")

Suspend(w, pc) ==
    [w EXCEPT !.attempts = @ (+) SetToBag({[pc |-> pc, live |-> w.signal.ws]}),
              !.op = "step"]

\* the reconnect callback after signal.reconnect() : if (this.subscriberPc) ...
\* restartSubscriberIce and startSubscriber throw without a subscriber handle
AttemptSubscriber(w) ==
    IF w.client.subscriberPc
    THEN IF w.signal.subscriberId THEN Suspend(w, "subscriberRestart")
         ELSE AttemptCatch(w, "UNEXPECTED_ERROR")
    ELSE AttemptSucceed(w)

\* the reconnect callback after signal.reconnect() : if (this.publisherPc) ...
\* configureMedia throws without a publisher handle
AttemptPublisher(w) ==
    IF w.client.publisherPc
    THEN IF w.client.publishedTracks < 1 \/ ~w.signal.publisherId
         THEN AttemptCatch(w, "UNEXPECTED_ERROR")
         ELSE Suspend(w, "publisherRestart")
    ELSE AttemptSubscriber(w)

\* the server urls the application passes to connect()
Urls == {"ws://h"}

\* normalizeWebSocketUrl throws INVALID_PARAMS
NormalizeWebSocketUrlThrows(url) == url \notin {"ws://h"}

Chains(w) == BagCardinality(w.timers) + BagCardinality(w.attempts)

\* handleDisconnect(false) goes on to setTimeout
Schedules(w) == w.client.connectionState # "RECONNECTING"

\* JanusClient.connect up to new WebSocket(...) : signal.connect stores the
\* server, forgets the current socket and throws on an unusable url
Connect(url) ==
    LET w1 == ChangeConnectionState(World, "CONNECTING", "none")
        w2 == [w1 EXCEPT !.signal.server = url, !.signal.ws = FALSE,
                         !.signal.isConnected = FALSE]
    IN  /\ calls.connect.pc = "idle"
        /\ IF NormalizeWebSocketUrlThrows(url)
           THEN Commit(w2, "step")
           ELSE Commit([w2 EXCEPT !.calls.connect = [pc |-> "wsOpening", live |-> FALSE]],
                       "step")

\* ws.onopen of connect(): this.ws = ws, then createSession sends "create"
ConnectWsOpen ==
    /\ calls.connect.pc = "wsOpening"
    /\ Commit([World EXCEPT !.signal.ws = TRUE, !.sent = "create",
                            !.calls.connect = [pc |-> "creating", live |-> TRUE]],
              "step")

\* ws.onerror of connect(): rejects when no socket is current (with a current
\* socket the promise of connect() never settles)
ConnectWsError ==
    /\ calls.connect.pc = "wsOpening"
    /\ Commit([World EXCEPT !.calls.connect = Idle], "step")

\* ws.onopen of connect() after createSession: on failure reject(err), and in
\* either case isConnected = true and the keep-alive timer; on success
\* connect() goes on to attach("publisher")
ConnectCreated(ok) ==
    LET w1 == [World EXCEPT !.signal.isConnected = TRUE,
                            !.signal.keepAliveTimerId = TRUE]
    IN  /\ calls.connect.pc = "creating"
        /\ ok => calls.connect.live
        /\ IF ok
           THEN Commit([w1 EXCEPT !.signal.sessionId = TRUE,
                                  !.calls.connect = [pc |-> "attaching",
                                                     live |-> w1.signal.ws]],
                       "step")
           ELSE Commit([w1 EXCEPT !.calls.connect = Idle], "step")

\* connect() after attach("publisher")
ConnectAttached(ok) ==
    /\ calls.connect.pc = "attaching"
    /\ ok => calls.connect.live
    /\ IF ok
       THEN Commit(ChangeConnectionState(
                     [World EXCEPT !.signal.publisherId = TRUE,
                                   !.calls.connect = Idle], "CONNECTED", "none"),
                   "step")
       ELSE Commit([World EXCEPT !.calls.connect = Idle], "step")

\* ws.onclose of the current socket while isConnected : onDisconnect
\* (n : the timers and callbacks the model lets exist together)
WsCloseWithin(n) ==
    /\ signal.ws /\ signal.isConnected
    /\ Schedules(World) => Chains(World) < n
    /\ Commit(HandleDisconnect(
                NoResponses([World EXCEPT !.signal.ws = FALSE,
                                          !.signal.isConnected = FALSE]), FALSE),
              "failure")

WsClose == WsCloseWithin(MaxChains)

\* pc.onconnectionstatechange with connectionState "failed", of a publisher or
\* subscriber peer connection that was not closed
PcFailed(handleType) ==
    /\ IF handleType = "publisher" THEN client.publisherPc ELSE client.subscriberPc
    /\ Schedules(World) => Chains(World) < MaxChains
    /\ Commit(HandleDisconnect(World, FALSE), "failure")

\* the setTimeout callback of handleDisconnect up to its first await:
\* signal.reconnect throws without server, else stops the keep-alive timer and
\* calls connect(server, .., true)
TimerFired(t) ==
    LET w1 == [World EXCEPT !.timers = @ (-) SetToBag({t})]
        w2 == [w1 EXCEPT !.signal.keepAliveTimerId = FALSE, !.signal.ws = FALSE,
                         !.signal.isConnected = FALSE]
    IN  /\ t \in DOMAIN timers
        /\ t.remaining = 0
        /\ IF client.connectionState # "RECONNECTING"
           THEN Commit(w1, "step")
           ELSE IF signal.server = ""
           THEN Commit(AttemptCatch(w1, "INVALID_OPERATION"),
                       AttemptCatch(w1, "INVALID_OPERATION").op)
           ELSE IF NormalizeWebSocketUrlThrows(signal.server)
           THEN Commit(AttemptCatch(w2, "INVALID_PARAMS"),
                       AttemptCatch(w2, "INVALID_PARAMS").op)
           ELSE Commit([w2 EXCEPT !.attempts =
                            @ (+) SetToBag({[pc |-> "wsOpening", live |-> FALSE]})],
                       "step")

\* ws.onopen of the reconnect with createSession() in place of
\* createSession(true)
AttemptWsOpenCreating(a) ==
    LET w1 == [World EXCEPT !.attempts = @ (-) SetToBag({a}), !.signal.ws = TRUE]
        w2 == [Suspend(w1, "claiming") EXCEPT !.sent = "create"]
    IN  /\ a \in DOMAIN attempts
        /\ a.pc = "wsOpening"
        /\ Commit(w2, w2.op)

\* ws.onopen of the reconnect: this.ws = ws, createSession(true) throws
\* without session id (then reject, isConnected = true, keep-alive timer),
\* else sends "claim"
AttemptWsOpen(a) ==
    LET w1 == [World EXCEPT !.attempts = @ (-) SetToBag({a}), !.signal.ws = TRUE]
        w2 == IF ~signal.sessionId
              THEN AttemptCatch([w1 EXCEPT !.signal.isConnected = TRUE,
                                           !.signal.keepAliveTimerId = TRUE],
                                "INVALID_OPERATION")
              ELSE [Suspend(w1, "claiming") EXCEPT !.sent = "claim"]
    IN  /\ a \in DOMAIN attempts
        /\ a.pc = "wsOpening"
        /\ Commit(w2, w2.op)

\* ws.onerror of the reconnect: rejects when no socket is current, else the
\* callback stays suspended for ever
AttemptWsError(a) ==
    LET w1 == [World EXCEPT !.attempts = @ (-) SetToBag({a})]
    IN  /\ a \in DOMAIN attempts
        /\ a.pc = "wsOpening"
        /\ IF ~signal.ws
           THEN Commit(AttemptCatch(w1, "WS_ERR"), AttemptCatch(w1, "WS_ERR").op)
           ELSE Commit(w1, "step")

\* the reconnect callback when a request it awaits settles
AttemptSettled(a, ok) ==
    LET w1 == [World EXCEPT !.attempts = @ (-) SetToBag({a})]
        w2 == IF a.pc = "claiming"
              THEN [w1 EXCEPT !.signal.isConnected = TRUE,
                              !.signal.keepAliveTimerId = TRUE]
              ELSE w1
        w3 == IF ~ok THEN AttemptCatch(w2, "SIGNAL_ERROR")
              ELSE IF a.pc = "claiming" THEN AttemptPublisher(w2)
              ELSE IF a.pc = "publisherRestart" THEN AttemptSubscriber(w2)
              ELSE AttemptSucceed(w2)
    IN  /\ a \in DOMAIN attempts
        /\ a.pc # "wsOpening"
        /\ ok => a.live
        /\ Commit(w3, w3.op)

\* JanusClient.leave up to the await of signal.destroy()
Leave ==
    /\ calls.leave.pc = "idle"
    /\ Commit([ChangeConnectionState(World, "DISCONNECTING", "none")
                 EXCEPT !.calls.leave = [pc |-> "destroying", live |-> signal.ws]],
              "leave")

\* leave() when the destroy request settles : signal.close(), reset(),
\* changeConnectionState("DISCONNECTED", LEAVE)
LeaveDestroyed(ok) ==
    /\ calls.leave.pc = "destroying"
    /\ ok => calls.leave.live
    /\ IF ok
       THEN Commit(ChangeConnectionState(
                     [Reset(SignalClose(World)) EXCEPT !.calls.leave = Idle],
                     "DISCONNECTED", "LEAVE"),
                   "step")
       ELSE Commit([World EXCEPT !.calls.leave = Idle], "step")

\* if (this.isJoined)
AlwaysJoinable(c) == FALSE
AlreadyJoined(c) == c.isJoined

\* JanusClient.join up to the await of signal.joinPublisher : the request
\* throws without a publisher handle
Join ==
    IF AlreadyJoined(client)
    THEN Commit(World, "joinInvalidOperation")
    ELSE IF ~signal.publisherId
    THEN Commit([World EXCEPT !.client.isJoined = TRUE], "join")
    ELSE /\ calls.join.pc = "idle"
         /\ Commit([World EXCEPT !.client.isJoined = TRUE,
                                 !.calls.join = [pc |-> "joining", live |-> signal.ws]],
                   "join")

\* joinPublisher when its request settles
JoinSettled(ok) ==
    /\ calls.join.pc = "joining"
    /\ ok => calls.join.live
    /\ IF ok
       THEN Commit([World EXCEPT !.signal.roomId = TRUE, !.signal.userPrivateId = TRUE,
                                 !.calls.join = Idle], "step")
       ELSE Commit([World EXCEPT !.calls.join = Idle], "step")

\* JanusClient.publish with a list of n tracks, up to its first await :
\* this.publishedTracks = tracks, this.publisherPc = pc
PublishTracks(n) ==
    Commit([World EXCEPT !.client.publishedTracks = n, !.client.publisherPc = TRUE],
           "step")

\* JanusClient.publish with a non-empty track list
Publish == PublishTracks(1)

\* JanusClient.unpublish up to the await of signal.unpublish : the request
\* throws without a publisher handle
Unpublish ==
    /\ calls.unpublish.pc = "idle"
    /\ IF ~signal.publisherId
       THEN Commit(World, "step")
       ELSE Commit([World EXCEPT !.calls.unpublish = [pc |-> "unpublishing",
                                                      live |-> signal.ws]], "step")

\* unpublish() when its request settles : on success publisherPc = undefined,
\* publishedTracks = []
UnpublishSettled(ok) ==
    /\ calls.unpublish.pc = "unpublishing"
    /\ ok => calls.unpublish.live
    /\ IF ok
       THEN Commit([World EXCEPT !.client.publisherPc = FALSE,
                                 !.client.publishedTracks = 0,
                                 !.calls.unpublish = Idle], "step")
       ELSE Commit([World EXCEPT !.calls.unpublish = Idle], "step")

\* pc.onicecandidate of the publisher or subscriber peer connection :
\* event.candidate is a local candidate, or null at the end of the gathering
OnIceCandidate(handleType, candidate) ==
    /\ IF handleType = "publisher" THEN client.publisherPc ELSE client.subscriberPc
    /\ IF candidate # NoCandidate
       THEN SendCandidate(candidate, handleType)
       ELSE SendCandidateCompleted(handleType)

\* some async function or reconnect callback is suspended at an await
Suspended ==
    \/ attempts # EmptyBag
    \/ \E n \in DOMAIN calls : calls[n].pc # "idle"

Elapse(bag, d) ==
    LET S == {[t EXCEPT !.remaining = @ - d] : t \in DOMAIN bag}
    IN  [t \in S |-> bag[[t EXCEPT !.remaining = @ + d]]]

Min(a, b) == IF a <= b THEN a ELSE b

\* time passes: up to the deadline of the next reconnect timer, or, with no
\* timer pending, by the timeout of a request that something is suspended on
Tick ==
    LET next == CHOOSE d \in {t.remaining : t \in DOMAIN timers} :
                    \A t \in DOMAIN timers : d <= t.remaining
        d == IF timers # EmptyBag THEN next ELSE Units(RequestTimeoutMs)
    IN  /\ timers # EmptyBag \/ Suspended
        /\ d > 0
        /\ timers # EmptyBag \/ (client.reconnectStart # 0 /\ sinceStart < Beyond)
        /\ Commit([World EXCEPT !.timers = Elapse(@, d),
                                !.sinceStart = IF client.reconnectStart = 0 THEN @
                                               ELSE Min(Beyond, @ + d)],
                  "step")

\* time passes without being measured: every pending timer becomes due, and
\* Date.now() - reconnectStart either stays within the cap or goes beyond it
Due(bag) ==
    IF bag = EmptyBag THEN EmptyBag
    ELSE [t \in {[remaining |-> 0]} |-> BagCardinality(bag)]

Wait(beyond) ==
    /\ timers # EmptyBag \/ Suspended
    /\ beyond => client.reconnectStart # 0
    /\ Commit([World EXCEPT !.timers = Due(@),
                            !.sinceStart = IF beyond THEN Beyond ELSE @],
              "step")
    /\ <<timers, sinceStart>>' # <<timers, sinceStart>>

---------------------------------------------------------------------------
(***************************************************************************)
(* JanusClient : subscribe                                                 *)
(***************************************************************************)

RECURSIVE StartTask(_, _), Settle(_, _, _), Emit(_, _, _, _)

\* doSubscribe up to its first await : attach("subscriber") without a
\* subscriber peer connection, else signal.subscribe, whose request throws
\* without a subscriber handle
StartTask(w, t) ==
    IF ~w.client.subscriberPc
    THEN [w EXCEPT !.tasks[t].pc = "attaching", !.tasks[t].live = w.signal.ws]
    ELSE IF w.signal.subscriberId
    THEN [w EXCEPT !.tasks[t].pc = "subscribing", !.tasks[t].live = w.signal.ws]
    ELSE Settle(w, t, "rejected")

\* the promise of a doSubscribe settles : its PromiseQueue starts the first
\* of the calls that wait in it
Settle(w, t, outcome) ==
    LET w1 == [w EXCEPT !.tasks[t].pc = outcome, !.tasks[t].live = FALSE,
                        !.tasks[t].gotTrack = FALSE, !.tasks[t].queue = 0]
        waiting == {u \in DOMAIN w.tasks :
                        /\ w.tasks[u].queue = w.tasks[t].queue
                        /\ w.tasks[u].pc = "queued"}
    IN  IF waiting = {} THEN w1
        ELSE StartTask(w1, CHOOSE u \in waiting : \A v \in waiting : u <= v)

\* PromiseQueue.add : the call starts at once when nothing runs in the queue
Busy(w) ==
    \E t \in DOMAIN w.tasks :
        w.tasks[t].queue = w.subscribeQueue /\ w.tasks[t].pc \in InFlightSteps

\* JanusClient.subscribe
Subscribe(userId, track) ==
    LET t == Len(tasks) + 1
        w1 == [World EXCEPT !.tasks = Append(@,
                  [userId |-> userId, track |-> track, queue |-> subscribeQueue,
                   pc |-> "queued", live |-> FALSE, gotTrack |-> FALSE])]
    IN  /\ Len(tasks) < MaxSubscribes
        /\ Commit(IF Busy(World) THEN w1 ELSE StartTask(w1, t), "step")

\* doSubscribe after attach("subscriber") : createSubscriberPC, then
\* signal.joinSubscriber
TaskAttached(t, ok) ==
    /\ t \in DOMAIN tasks
    /\ tasks[t].pc = "attaching"
    /\ ok => tasks[t].live
    /\ IF ok
       THEN Commit([World EXCEPT !.signal.subscriberId = TRUE,
                                 !.client.subscriberPc = TRUE,
                                 !.tasks[t].pc = "joining",
                                 !.tasks[t].live = signal.ws], "step")
       ELSE Commit(Settle(World, t, "rejected"), "step")

\* the table of a response to the subscribe or join of a call : its row
ResponseTables(task) ==
    {<<[type |-> KindOf(task.track.mid), userId |-> task.userId,
        tmpMid |-> task.track.mid, formalMid |-> f]>> : f \in Mids}

\* doSubscribe after joinSubscriber or subscribe : the once listener, the
\* track map, then the negotiation on this.subscriberPc up to startSubscriber
TaskSubscribed(t, ok, rows) ==
    LET task == tasks[t]
        w1 == [World EXCEPT
                 !.innerEmitter = Append(@, t),
                 !.trackMap = SetTrack(Update(@, rows), task.userId, task.track.mid,
                                       task.track),
                 !.lastRows = rows]
    IN  /\ t \in DOMAIN tasks
        /\ tasks[t].pc \in {"joining", "subscribing"}
        /\ ok => tasks[t].live
        /\ IF ~ok
           THEN Commit(Settle(World, t, "rejected"), "step")
           ELSE IF ~client.subscriberPc \/ ~signal.subscriberId
           THEN Commit(Settle(w1, t, "rejected"), "step")
           ELSE Commit([w1 EXCEPT !.tasks[t].pc = "negotiating",
                                  !.tasks[t].live = signal.ws], "step")

\* doSubscribe after startSubscriber : return p
TaskNegotiated(t, ok) ==
    /\ t \in DOMAIN tasks
    /\ tasks[t].pc = "negotiating"
    /\ ok => tasks[t].live
    /\ IF ok /\ ~tasks[t].gotTrack
       THEN Commit([World EXCEPT !.tasks[t].pc = "awaitingTrack",
                                 !.tasks[t].live = FALSE], "step")
       ELSE Commit(Settle(World, t, IF ok THEN "resolved" ELSE "rejected"), "step")

\* remoteUsers after the listener of a call has stored its track
Bound(users, userId, kind, id) ==
    LET user == IF userId \in DOMAIN users THEN users[userId]
                ELSE [audioTrack |-> 0, videoTrack |-> 0]
    IN  [u \in DOMAIN users \cup {userId} |->
            IF u # userId THEN users[u]
            ELSE IF kind = "video" THEN [user EXCEPT !.videoTrack = id]
            ELSE [user EXCEPT !.audioTrack = id]]

\* the slot of remoteUsers that the listener of a call writes : the track
\* object it holds, 0 when it holds none or the user is not in the map
Slot(users, userId, kind) ==
    IF userId \notin DOMAIN users THEN 0
    ELSE IF kind = "video" THEN users[userId].videoTrack
    ELSE users[userId].audioTrack

\* the once listener of doSubscribe : track.setMediaStreamTrack(clone), then
\* stop() of the track object found in the slot, then the slot holds track
Listener(media, users, task, cause) ==
    LET set == [media EXCEPT ![task.track.id] = cause]
        prev == Slot(users, task.userId, KindOf(task.track.mid))
    IN  IF prev = 0 THEN set ELSE [set EXCEPT ![prev] = NoMedia]

\* innerEmitter.emit("ontrack", track) : the once listeners in registration
\* order; each is removed, then run: setMediaStreamTrack throws on a track of
\* the other kind, which ends the emit
Emit(w, listeners, kind, cause) ==
    IF listeners = <<>> THEN w
    ELSE LET t == Head(listeners)
             task == w.tasks[t]
             w1 == [w EXCEPT !.innerEmitter = SelectSeq(@, LAMBDA u : u # t)]
             w2 == [w1 EXCEPT !.mediaStreamTrack = Listener(@, w.remoteUsers, task,
                                                            cause),
                              !.remoteUsers = Bound(@, task.userId,
                                                    KindOf(task.track.mid),
                                                    task.track.id),
                              !.tasks[t].gotTrack = task.pc \in InFlightSteps]
         IN  IF KindOf(task.track.mid) # kind THEN w1
             ELSE Emit(IF task.pc = "awaitingTrack" THEN Settle(w2, t, "resolved")
                       ELSE w2,
                       Tail(listeners), kind, cause)

\* the negotiations on the subscriber peer connection that can make the media
\* engine deliver an inbound track of a kind : the one of a doSubscribe for a
\* track of that kind, from its setRemoteDescription on, and the one that
\* onUpdated runs for an "updated" event of the gateway
Causes(kind) ==
    {Updated} \cup {t \in DOMAIN tasks : /\ tasks[t].pc \in {"negotiating", "awaitingTrack"}
                                        /\ KindOf(tasks[t].track.mid) = kind}

\* pc.ontrack of the subscriber peer connection
OnTrack(kind, cause) ==
    /\ client.subscriberPc
    /\ innerEmitter # <<>>
    /\ cause \in Causes(kind)
    /\ Commit(Emit(World, innerEmitter, kind, cause), "step")

---------------------------------------------------------------------------
(***************************************************************************)
(* JanusClient (client.ts) : the mute grace of an inbound track            *)
(***************************************************************************)

\* the inbound track of a transceiver before its first ontrack event :
\*   closures    the ontrack events so far, each with an onmuteTimer of its own
\*   handlers    the closure whose onended / onmute / onunmute the track has
\*   onmuteTimer the timer each closure set last (the number of its mute event)
\*   pending     the timers set and neither cleared nor fired
\*   episode     the mute events so far
\*   unpublished the user-unpublished events emitted for its events so far
NewInbound ==
    [closures |-> 0, handlers |-> 0, mid |-> "-", kind |-> "-", muted |-> FALSE,
     ended |-> FALSE, episode |-> 0, onmuteTimer |-> [c \in 1..MaxOnTracks |-> 0],
     pending |-> {}, unpublished |-> 0]

\* if (onmuteTimer) clearTimeout(onmuteTimer), in the closure of the handlers
ClearTimeout(track) ==
    track.pending \ {[closure |-> track.handlers,
                       episode |-> track.onmuteTimer[track.handlers]]}

\* remoteUsers without the track of a kind of a user, and without the user
\* when it has no track left
Unbound(users, userId, kind) ==
    LET user == IF kind = "video" THEN [users[userId] EXCEPT !.videoTrack = 0]
                ELSE [users[userId] EXCEPT !.audioTrack = 0]
        rest == IF user.audioTrack = 0 /\ user.videoTrack = 0
                THEN DOMAIN users \ {userId} ELSE DOMAIN users
    IN  [u \in rest |-> IF u = userId THEN user ELSE users[u]]

\* JanusClient.handleTrackUnpublish for an event of the inbound track
HandleTrackUnpublish(w, by) ==
    LET evTrack == GetTrack(w.trackMap, w.inbound.mid)
        evUser == GetUser(w.trackMap, w.inbound.mid)
        kind == KindOf(evTrack.mid)
        slot == Slot(w.remoteUsers, evUser, kind)
    IN  IF ~w.client.subscriberPc \/ evTrack = NoTrack \/ evUser = NoUser THEN w
        ELSE [w EXCEPT
                !.op = by,
                !.inbound.unpublished = @ + 1,
                !.mediaStreamTrack = IF slot = 0 THEN @ ELSE [@ EXCEPT ![slot] = NoMedia],
                !.remoteUsers = IF evUser \in DOMAIN @ THEN Unbound(@, evUser, kind)
                                ELSE @]

\* pc.ontrack of the subscriber peer connection for the transceiver of the
\* inbound track : a new closure, the three handlers, then the emit
OnTrackEvent(kind, cause, mid) ==
    LET c == inbound.closures + 1
    IN  /\ client.subscriberPc
        /\ inbound.closures < MaxOnTracks
        /\ ~inbound.ended
        /\ inbound.closures # 0 => (kind = inbound.kind /\ mid = inbound.mid)
        /\ cause \in Causes(kind)
        /\ Commit(Emit([World EXCEPT !.inbound.closures = c, !.inbound.handlers = c,
                                     !.inbound.kind = kind, !.inbound.mid = mid],
                       innerEmitter, kind, cause), "step")

\* event.track.onmute
TrackMute ==
    LET n == inbound.episode + 1
        c == inbound.handlers
    IN  /\ c # 0 /\ ~inbound.muted /\ ~inbound.ended
        /\ n <= MaxMutes
        /\ Commit([World EXCEPT
                     !.inbound.muted = TRUE, !.inbound.episode = n,
                     !.inbound.pending = ClearTimeout(inbound)
                                            \cup {[closure |-> c, episode |-> n]},
                     !.inbound.onmuteTimer[c] = n], "step")

\* event.track.onunmute
TrackUnmute ==
    /\ inbound.handlers # 0 /\ inbound.muted /\ ~inbound.ended
    /\ Commit([World EXCEPT !.inbound.muted = FALSE,
                            !.inbound.pending = ClearTimeout(inbound)], "step")

\* event.track.onended
TrackEnded ==
    /\ inbound.handlers # 0 /\ ~inbound.ended
    /\ LET w == HandleTrackUnpublish(
                    [World EXCEPT !.inbound.ended = TRUE,
                                  !.inbound.pending = ClearTimeout(inbound)],
                    "unpublishedByEnded")
       IN  Commit(w, w.op)

\* the callback of setTimeout(.., 2000) of onmute
MuteTimerFired(timer) ==
    /\ timer \in inbound.pending
    /\ LET w == HandleTrackUnpublish([World EXCEPT !.inbound.pending = @ \ {timer}],
                                     "unpublishedByTimer")
       IN  Commit(w, w.op)

Init ==
    /\ trackMap = NewTrackMap
    /\ lastRows = <<>>
    /\ signal = NewSignal
    /\ ignoreAckRequests = {}
    /\ transactionEmitter = {}
    /\ requests = <<>>
    /\ lastOp = "init"
    /\ client = NewClient
    /\ emitted = <<>>
    /\ timers = EmptyBag
    /\ attempts = EmptyBag
    /\ calls = NewCalls
    /\ sinceStart = 0
    /\ tasks = <<>>
    /\ subscribeQueue = 0
    /\ innerEmitter = <<>>
    /\ remoteUsers = NoUsers
    /\ sent = "none"
    /\ caught = "none"
    /\ mediaStreamTrack = NoMediaStreamTracks
    /\ inbound = NewInbound

NextTrackMap ==
    \/ \E rows \in Tables, u \in UserIds, t \in RemoteTrack : ApplySubscription(rows, u, t)
    \/ ClearTrackMap

SpecTrackMap == Init /\ [][NextTrackMap]_vars

NextSignal ==
    \/ \E kind \in RequestKinds : Request(kind)
    \/ \E m \in Messages, tid \in 1..MaxRequests : HandleMessage(m.type, tid, m.shape)
    \/ \E tid \in 1..MaxRequests : RequestTimeout(tid)
    \/ WsOpen
    \/ Close

SpecSignal == Init /\ [][NextSignal]_vars

\* the timer that promise-timeout arms for every pending request does fire
SpecSignalFair ==
    SpecSignal /\ \A tid \in 1..MaxRequests : WF_vars(RequestTimeout(tid))

\* the connection lifecycle under an application that calls connect, publish
\* and leave at any time ; the time between two steps is not measured
Next ==
    \/ \E url \in Urls : Connect(url)
    \/ ConnectWsOpen
    \/ ConnectWsError
    \/ \E ok \in BOOLEAN : ConnectCreated(ok)
    \/ \E ok \in BOOLEAN : ConnectAttached(ok)
    \/ WsClose
    \/ \E handleType \in {"publisher", "subscriber"} : PcFailed(handleType)
    \/ \E t \in DOMAIN timers : TimerFired(t)
    \/ \E a \in DOMAIN attempts : AttemptWsOpen(a)
    \/ \E a \in DOMAIN attempts : AttemptWsError(a)
    \/ \E a \in DOMAIN attempts, ok \in BOOLEAN : AttemptSettled(a, ok)
    \/ Leave
    \/ \E ok \in BOOLEAN : LeaveDestroyed(ok)
    \/ Publish
    \/ \E beyond \in BOOLEAN : Wait(beyond)

Spec == Init /\ [][Next]_vars

\* one outage at a time with the clock measured: the application connects a
\* DISCONNECTED client and then leaves it alone
NextOutage ==
    \/ \E url \in Urls : client.connectionState = "DISCONNECTED" /\ Connect(url)
    \/ ConnectWsOpen
    \/ ConnectWsError
    \/ \E ok \in BOOLEAN : ConnectCreated(ok)
    \/ \E ok \in BOOLEAN : ConnectAttached(ok)
    \/ WsClose
    \/ \E t \in DOMAIN timers : TimerFired(t)
    \/ \E a \in DOMAIN attempts : AttemptWsOpen(a)
    \/ \E a \in DOMAIN attempts : AttemptWsError(a)
    \/ \E a \in DOMAIN attempts, ok \in BOOLEAN : AttemptSettled(a, ok)
    \/ Tick

SpecOutage == Init /\ [][NextOutage]_vars

\* room membership under an application that calls connect, join and leave at
\* any time, on a transport that stays up
NextJoin ==
    \/ \E url \in Urls : Connect(url)
    \/ ConnectWsOpen
    \/ ConnectWsError
    \/ \E ok \in BOOLEAN : ConnectCreated(ok)
    \/ \E ok \in BOOLEAN : ConnectAttached(ok)
    \/ Join
    \/ \E ok \in BOOLEAN : JoinSettled(ok)
    \/ Leave
    \/ \E ok \in BOOLEAN : LeaveDestroyed(ok)

SpecJoin == Init /\ [][NextJoin]_vars

\* subscriptions under an application that calls connect, leave and subscribe
\* (to the tracks published by user 7) at any time, on a transport that stays up
\* (the inbound tracks are not told apart by the negotiation that made them)
NextSubscribe ==
    \/ \E url \in Urls : Connect(url)
    \/ ConnectWsOpen
    \/ ConnectWsError
    \/ \E ok \in BOOLEAN : ConnectCreated(ok)
    \/ \E ok \in BOOLEAN : ConnectAttached(ok)
    \/ \E track \in RemoteTrack : Subscribe(7, track)
    \/ \E t \in DOMAIN tasks, ok \in BOOLEAN : TaskAttached(t, ok)
    \/ \E t \in DOMAIN tasks, ok \in BOOLEAN :
            \E rows \in ResponseTables(tasks[t]) : TaskSubscribed(t, ok, rows)
    \/ \E t \in DOMAIN tasks, ok \in BOOLEAN : TaskNegotiated(t, ok)
    \/ \E kind \in {"audio", "video"} : OnTrack(kind, Updated)
    \/ Leave
    \/ \E ok \in BOOLEAN : LeaveDestroyed(ok)

SpecSubscribe == Init /\ [][NextSubscribe]_vars

\* subscriptions of a client that connects once, under an application that
\* subscribes to the tracks published by user 7 once CONNECTED; the media engine
\* delivers inbound tracks for the negotiations of the calls and for those
\* that the gateway starts with "updated"
NextTracks ==
    \/ \E url \in Urls : signal.server = "" /\ Connect(url)
    \/ ConnectWsOpen
    \/ ConnectWsError
    \/ \E ok \in BOOLEAN : ConnectCreated(ok)
    \/ \E ok \in BOOLEAN : ConnectAttached(ok)
    \/ \E track \in RemoteTrack :
            client.connectionState = "CONNECTED" /\ Subscribe(7, track)
    \/ \E t \in DOMAIN tasks, ok \in BOOLEAN : TaskAttached(t, ok)
    \/ \E t \in DOMAIN tasks, ok \in BOOLEAN :
            \E rows \in ResponseTables(tasks[t]) : TaskSubscribed(t, ok, rows)
    \/ \E t \in DOMAIN tasks, ok \in BOOLEAN : TaskNegotiated(t, ok)
    \/ \E kind \in {"audio", "video"} : \E cause \in Causes(kind) : OnTrack(kind, cause)

SpecTracks == Init /\ [][NextTracks]_vars

\* every socket that is opening opens or fails and every awaited request
\* settles (by its response or by its timeout) ; whether the media engine
\* delivers an inbound track is up to the negotiation
SpecTracksFair ==
    /\ SpecTracks
    /\ WF_vars(ConnectWsOpen \/ ConnectWsError)
    /\ WF_vars(\E ok \in BOOLEAN : ConnectCreated(ok))
    /\ WF_vars(\E ok \in BOOLEAN : ConnectAttached(ok))
    /\ WF_vars(\E t \in DOMAIN tasks, ok \in BOOLEAN : TaskAttached(t, ok))
    /\ WF_vars(\E t \in DOMAIN tasks, ok \in BOOLEAN :
                    \E rows \in ResponseTables(tasks[t]) : TaskSubscribed(t, ok, rows))
    /\ WF_vars(\E t \in DOMAIN tasks, ok \in BOOLEAN : TaskNegotiated(t, ok))

\* the mute grace under the same application; the ontrack events are those of
\* one transceiver, whose track mutes, unmutes and ends as the media engine
\* decides; a timer of onmute fires 2 s after it was set
NextMute ==
    \/ \E url \in Urls : signal.server = "" /\ Connect(url)
    \/ ConnectWsOpen
    \/ ConnectWsError
    \/ \E ok \in BOOLEAN : ConnectCreated(ok)
    \/ \E ok \in BOOLEAN : ConnectAttached(ok)
    \/ \E track \in RemoteTrack :
            client.connectionState = "CONNECTED" /\ Subscribe(7, track)
    \/ \E t \in DOMAIN tasks, ok \in BOOLEAN : TaskAttached(t, ok)
    \/ \E t \in DOMAIN tasks, ok \in BOOLEAN :
            \E rows \in ResponseTables(tasks[t]) : TaskSubscribed(t, ok, rows)
    \/ \E t \in DOMAIN tasks, ok \in BOOLEAN : TaskNegotiated(t, ok)
    \/ \E kind \in {"audio", "video"}, mid \in Mids :
            \E cause \in Causes(kind) : OnTrackEvent(kind, cause, mid)
    \/ TrackMute
    \/ TrackUnmute
    \/ TrackEnded
    \/ \E timer \in inbound.pending : MuteTimerFired(timer)

SpecMute == Init /\ [][NextMute]_vars

\* leave() under an application that connects a DISCONNECTED client and calls
\* leave at any time, on a transport that can drop
NextLeave ==
    \/ \E url \in Urls : client.connectionState = "DISCONNECTED" /\ Connect(url)
    \/ ConnectWsOpen
    \/ ConnectWsError
    \/ \E ok \in BOOLEAN : ConnectCreated(ok)
    \/ \E ok \in BOOLEAN : ConnectAttached(ok)
    \/ WsClose
    \/ \E t \in DOMAIN timers : TimerFired(t)
    \/ \E a \in DOMAIN attempts : AttemptWsOpen(a)
    \/ \E a \in DOMAIN attempts : AttemptWsError(a)
    \/ \E a \in DOMAIN attempts, ok \in BOOLEAN : AttemptSettled(a, ok)
    \/ Leave
    \/ \E ok \in BOOLEAN : LeaveDestroyed(ok)
    \/ \E beyond \in BOOLEAN : Wait(beyond)

SpecLeave == Init /\ [][NextLeave]_vars

\* every socket that is opening opens or fails, every awaited request settles
\* (by its response or by its timeout), every timer becomes due and fires
SpecLeaveFair ==
    /\ SpecLeave
    /\ WF_vars(ConnectWsOpen \/ ConnectWsError)
    /\ WF_vars(\E ok \in BOOLEAN : ConnectCreated(ok))
    /\ WF_vars(\E ok \in BOOLEAN : ConnectAttached(ok))
    /\ WF_vars(\E ok \in BOOLEAN : LeaveDestroyed(ok))
    /\ WF_vars(\E t \in DOMAIN timers : TimerFired(t))
    /\ WF_vars(\E a \in DOMAIN attempts : AttemptWsOpen(a) \/ AttemptWsError(a))
    /\ WF_vars(\E a \in DOMAIN attempts, ok \in BOOLEAN : AttemptSettled(a, ok))
    /\ WF_vars(Wait(FALSE))

\* teardown under an application that connects a new client once, then
\* joins, then publishes, then subscribes once (to the audio or the video
\* track published by user 7), each while the client is CONNECTED, and calls
\* leave at any time, on a transport that can drop
NextReset ==
    \/ \E url \in Urls : signal.server = "" /\ Connect(url)
    \/ ConnectWsOpen
    \/ ConnectWsError
    \/ \E ok \in BOOLEAN : ConnectCreated(ok)
    \/ \E ok \in BOOLEAN : ConnectAttached(ok)
    \/ client.connectionState = "CONNECTED" /\ ~client.isJoined /\ Join
    \/ \E ok \in BOOLEAN : JoinSettled(ok)
    \/ client.connectionState = "CONNECTED" /\ signal.roomId /\ ~client.publisherPc
            /\ Publish
    \/ \E track \in {r \in RemoteTrack : r.id # 3} :
            client.connectionState = "CONNECTED" /\ client.publisherPc
                /\ tasks = <<>> /\ Subscribe(7, track)
    \/ \E t \in DOMAIN tasks, ok \in BOOLEAN : TaskAttached(t, ok)
    \/ \E t \in DOMAIN tasks, ok \in BOOLEAN :
            \E rows \in ResponseTables(tasks[t]) : TaskSubscribed(t, ok, rows)
    \/ \E t \in DOMAIN tasks, ok \in BOOLEAN : TaskNegotiated(t, ok)
    \/ \E kind \in {"audio", "video"} : OnTrack(kind, Updated)
    \/ WsClose
    \/ \E t \in DOMAIN timers : TimerFired(t)
    \/ \E a \in DOMAIN attempts : AttemptWsOpen(a)
    \/ \E a \in DOMAIN attempts : AttemptWsError(a)
    \/ \E a \in DOMAIN attempts, ok \in BOOLEAN : AttemptSettled(a, ok)
    \/ Leave
    \/ \E ok \in BOOLEAN : LeaveDestroyed(ok)
    \/ \E beyond \in BOOLEAN : Wait(beyond)

SpecReset == Init /\ [][NextReset]_vars

\* reconnection under an application that connects a DISCONNECTED client and
\* calls leave at any time, on a transport that can drop, with room for one
\* reconnect timer or callback more
NextChains ==
    \/ \E url \in Urls : client.connectionState = "DISCONNECTED" /\ Connect(url)
    \/ ConnectWsOpen
    \/ ConnectWsError
    \/ \E ok \in BOOLEAN : ConnectCreated(ok)
    \/ \E ok \in BOOLEAN : ConnectAttached(ok)
    \/ WsCloseWithin(MaxChains + 1)
    \/ \E t \in DOMAIN timers : TimerFired(t)
    \/ \E a \in DOMAIN attempts : AttemptWsOpen(a)
    \/ \E a \in DOMAIN attempts : AttemptWsError(a)
    \/ \E a \in DOMAIN attempts, ok \in BOOLEAN : AttemptSettled(a, ok)
    \/ Leave
    \/ \E ok \in BOOLEAN : LeaveDestroyed(ok)
    \/ \E beyond \in BOOLEAN : Wait(beyond)

SpecChains == Init /\ [][NextChains]_vars

\* the correlator of a signal client that the application connects once: the
\* requests made before, during and after connect() and attach("publisher")
\* (destroy, which closes the signal client, not during), the frames that come
\* for them and their timeouts
NextCorrelator ==
    \/ \E url \in Urls : signal.server = "" /\ Connect(url)
    \/ ConnectWsOpen
    \/ ConnectWsError
    \/ \E ok \in BOOLEAN : ConnectCreated(ok)
    \/ \E ok \in BOOLEAN : ConnectAttached(ok)
    \/ \E kind \in RequestKinds :
            (kind = "destroy" => calls.connect.pc = "idle") /\ Request(kind)
    \/ \E m \in Messages, tid \in 1..MaxRequests : HandleMessage(m.type, tid, m.shape)
    \/ \E tid \in 1..MaxRequests : RequestTimeout(tid)

SpecCorrelator == Init /\ [][NextCorrelator]_vars

\* configureMedia of a client that connects once, for every list of local
\* tracks, with the responses and the timeout of its request
NextConfigure ==
    \/ \E url \in Urls : signal.server = "" /\ Connect(url)
    \/ ConnectWsOpen
    \/ ConnectWsError
    \/ \E ok \in BOOLEAN : ConnectCreated(ok)
    \/ \E ok \in BOOLEAN : ConnectAttached(ok)
    \/ \E tracks \in TrackLists : ConfigureMedia(tracks)
    \/ \E m \in Messages, tid \in 1..MaxRequests : HandleMessage(m.type, tid, m.shape)
    \/ \E tid \in 1..MaxRequests : RequestTimeout(tid)

SpecConfigure == Init /\ [][NextConfigure]_vars

\* the trickle of a client that connects once and publishes once, at any
\* time : the candidates its peer connection gathers, the end of the gathering,
\* and the responses and timeouts of the requests
NextTrickle ==
    \/ \E url \in Urls : signal.server = "" /\ Connect(url)
    \/ ConnectWsOpen
    \/ ConnectWsError
    \/ \E ok \in BOOLEAN : ConnectCreated(ok)
    \/ \E ok \in BOOLEAN : ConnectAttached(ok)
    \/ ~client.publisherPc /\ Publish
    \/ \E handleType \in {"publisher", "subscriber"} :
            \E candidate \in Candidates \cup {NoCandidate} :
                OnIceCandidate(handleType, candidate)
    \/ \E m \in Messages, tid \in 1..MaxRequests : HandleMessage(m.type, tid, m.shape)
    \/ \E tid \in 1..MaxRequests : RequestTimeout(tid)

SpecTrickle == Init /\ [][NextTrickle]_vars

\* publishing under an application that connects a new client once and calls
\* publish (with any list of tracks) and unpublish at any time, on a transport
\* that can drop
NextPublish ==
    \/ \E url \in Urls : signal.server = "" /\ Connect(url)
    \/ ConnectWsOpen
    \/ ConnectWsError
    \/ \E ok \in BOOLEAN : ConnectCreated(ok)
    \/ \E ok \in BOOLEAN : ConnectAttached(ok)
    \/ \E n \in 0..MaxTracks : PublishTracks(n)
    \/ Unpublish
    \/ \E ok \in BOOLEAN : UnpublishSettled(ok)
    \/ WsClose
    \/ \E t \in DOMAIN timers : TimerFired(t)
    \/ \E a \in DOMAIN attempts : AttemptWsOpen(a)
    \/ \E a \in DOMAIN attempts : AttemptWsError(a)
    \/ \E a \in DOMAIN attempts, ok \in BOOLEAN : AttemptSettled(a, ok)
    \/ \E beyond \in BOOLEAN : Wait(beyond)

SpecPublish == Init /\ [][NextPublish]_vars

---------------------------------------------------------------------------
(***************************************************************************)
(* Claims                                                                  *)
(***************************************************************************)

\* the userId of the first row of a table with the given formalMid
RowUser(rows, mid) ==
    IF \E i \in DOMAIN rows : rows[i].formalMid = mid
    THEN rows[CHOOSE i \in DOMAIN rows :
                /\ rows[i].formalMid = mid
                /\ \A j \in 1..(i - 1) : rows[j].formalMid # mid].userId
    ELSE NoUser

HasRow(rows, mid) == \E i \in DOMAIN rows : rows[i].formalMid = mid

\* C9 (as stated): after doSubscribe has applied a response, getUser(mid) is the
\* user of the new table's row for mid, and getTrack(mid) returns a track only
\* if the new table has a row for mid.
C9_LookupsFollowNewTable ==
    lastOp = "applySubscription" =>
        \A mid \in Mids :
            /\ GetUser(trackMap, mid) = RowUser(lastRows, mid)
            /\ GetTrack(trackMap, mid) # NoTrack => HasRow(lastRows, mid)

\* C9 (amended): after doSubscribe has applied a response, getUser(mid) is the
\* user of the first row of the new table for mid (null without one), and
\* getTrack(mid) is either a track under a row of the new table or the binding
\* getTrack(mid) had before the update: bindings survive update until clear().
C9_UserFollowsNewTableTracksAccumulate ==
    [][lastOp' = "applySubscription" =>
        \A mid \in Mids :
            /\ GetUser(trackMap', mid) = RowUser(lastRows', mid)
            /\ GetTrack(trackMap', mid) # NoTrack =>
                  \/ HasRow(lastRows', mid)
                  \/ GetTrack(trackMap', mid) = GetTrack(trackMap, mid)]_vars

\* C9 witness: a response was applied and a binding made under an earlier table
\* is still returned although the new table has no row for its formalMid
C9_Witness ==
    /\ lastOp = "applySubscription"
    /\ \E mid \in Mids : GetTrack(trackMap, mid) # NoTrack /\ ~HasRow(lastRows, mid)

\* C1 (as stated): at most one doSubscribe is in flight at any instant.
C1_AtMostOneDoSubscribeInFlight ==
    Cardinality({t \in DOMAIN tasks : tasks[t].pc \in InFlightSteps}) <= 1

\* C2: a request settles exactly once: it does settle, its outcome never changes
\* afterwards, no listener for its transaction id remains once it has settled,
\* and an inbound message for a settled transaction changes nothing.
C2_SettlesOnceAndUnregisters ==
    /\ [](\A tid \in DOMAIN requests :
            requests[tid].state # "pending" => tid \notin transactionEmitter)
    /\ [][\A tid \in DOMAIN requests :
            /\ requests[tid].state # "pending" =>
                  /\ requests'[tid].state = requests[tid].state
                  /\ requests'[tid].by = requests[tid].by
                  /\ requests'[tid].error = requests[tid].error
            /\ requests'[tid].late /\ ~requests[tid].late =>
                  /\ signal' = signal
                  /\ transactionEmitter' = transactionEmitter
                  /\ ignoreAckRequests' = ignoreAckRequests]_vars
    /\ \A tid \in 1..MaxRequests :
            (tid \in DOMAIN requests) ~>
                (tid \in DOMAIN requests /\ requests[tid].state # "pending")

\* C2 witness: a resolved request whose transaction id was carried by a later
\* inbound message
C2_Witness ==
    \E tid \in DOMAIN requests : requests[tid].state = "resolved" /\ requests[tid].late

\* the timer that a step has added to the pending ones
Scheduled(old, new) ==
    {t \in DOMAIN new : CopiesIn(t, new) > CopiesIn(t, old)}

\* C3 (as stated): a failure signal that fires while the client is CONNECTED
\* emits the CONNECTED -> RECONNECTING event (and a failure signal that fires
\* while it is RECONNECTING emits nothing).
C3_DropWhileConnectedEmitsReconnecting ==
    [][lastOp' = "failure" =>
        /\ client.connectionState = "CONNECTED" =>
              emitted' = <<[curr |-> "RECONNECTING", prev |-> "CONNECTED",
                            reason |-> "none"]>>
        /\ client.connectionState = "RECONNECTING" => emitted' = <<>>]_vars

C5_FirstAttemptAfterDropImmediate ==
    [][(lastOp' = "failure" /\ client.connectionState = "CONNECTED") =>
        \A t \in Scheduled(timers, timers') : t.remaining = 0]_vars

\* C6 (as stated): the client is not RECONNECTING once the time since the
\* recorded start of the episode exceeds the cap.
C6_NotReconnectingBeyondCap ==
    client.connectionState = "RECONNECTING" =>
        Duration(World) <= Units(maxReconnectDuration)

\* C7: once join() has succeeded and no reset has run since (isJoined and the
\* roomId of the successful join are both set), a join() fails with
\* INVALID_OPERATION, puts no request in flight and leaves the client and the
\* signal client as they were.
C7_SecondJoinRejected ==
    [][(client.isJoined /\ signal.roomId
            /\ lastOp' \in {"join", "joinInvalidOperation"}) =>
        /\ lastOp' = "joinInvalidOperation"
        /\ calls' = calls
        /\ client' = client
        /\ signal' = signal]_vars

\* C7 witness: a join() was rejected as already joined after a successful join
C7_Witness ==
    lastOp = "joinInvalidOperation" /\ client.isJoined /\ signal.roomId

\* C8 (as stated): leave() called while DISCONNECTED emits no event and leaves
\* the state DISCONNECTED.
C8_LeaveWhileDisconnectedIsNoOp ==
    [][(lastOp' = "leave" /\ client.connectionState = "DISCONNECTED") =>
        /\ emitted' = <<>>
        /\ client'.connectionState = "DISCONNECTED"]_vars

\* C10: every event emitted by a step has current # previous, its previous is
\* the state held just before it, and the state after the step is the current
\* of the last event, or the state before the step when none was emitted.
C10_EventsMatchStateChanges ==
    [][/\ \A i \in DOMAIN emitted' :
            /\ emitted'[i].curr # emitted'[i].prev
            /\ emitted'[i].prev = IF i = 1 THEN client.connectionState
                                  ELSE emitted'[i - 1].curr
       /\ client'.connectionState =
            IF emitted' = <<>> THEN client.connectionState
            ELSE emitted'[Len(emitted')].curr]_vars

\* C10 witness: leave() asked for DISCONNECTING while it was the state held
C10_Witness ==
    lastOp = "leave" /\ emitted = <<>> /\ client.connectionState = "DISCONNECTING"

\* C11 (as stated): connectionState becomes CONNECTING only from DISCONNECTED.
C11_ConnectingOnlyFromDisconnected ==
    [][(client'.connectionState = "CONNECTING" /\ client.connectionState # "CONNECTING")
            => client.connectionState = "DISCONNECTED"]_vars

\* C12 (as stated): connectionState becomes RECONNECTING only from CONNECTED,
\* and only by a failure signal.
C12_ReconnectingOnlyFromConnected ==
    [][(client'.connectionState = "RECONNECTING"
            /\ client.connectionState # "RECONNECTING")
            => (client.connectionState = "CONNECTED" /\ lastOp' = "failure")]_vars

\* C13 (as stated): after a leave() called while the client is CONNECTED or
\* RECONNECTING the client eventually is DISCONNECTED.
C13_LeaveReachesDisconnected ==
    (/\ lastOp = "leave"
     /\ emitted # <<>>
     /\ emitted[1].prev \in {"CONNECTED", "RECONNECTING"})
        ~> (client.connectionState = "DISCONNECTED")

\* C14: a step that emits a change to DISCONNECTED leaves the client reset:
\* remoteUsers is empty, both peer connections are undefined, the track map has
\* no rows and no bindings, nothing runs or waits in the subscribe queue (it is
\* a new one), reconnectAttempts = reconnectStart = 0, the published-track list
\* is empty and isJoined is false.
C14_ResetBeforeDisconnected ==
    [][(\E i \in DOMAIN emitted' : emitted'[i].curr = "DISCONNECTED") =>
        /\ remoteUsers' = NoUsers
        /\ trackMap' = NewTrackMap
        /\ client' = NewClient
        /\ ~\E t \in DOMAIN tasks' :
                /\ tasks'[t].queue = subscribeQueue'
                /\ tasks'[t].pc \in InFlightSteps \cup {"queued"}]_vars

\* C14 witness: a reconnect callback gave up, or leave() finished, while a
\* doSubscribe that had applied its response was still in flight
C14_Witness ==
    /\ emitted # <<>>
    /\ emitted[Len(emitted)].curr = "DISCONNECTED"
    /\ \E t \in DOMAIN tasks : tasks[t].pc \in {"negotiating", "awaitingTrack"}

\* C15 (as stated, first half): at most one reconnect timer or reconnect
\* callback exists at any instant.
C15_AtMostOneReconnectAttempt == Chains(World) <= 1

\* C16: a reconnect callback that reaches the end of its try block while the
\* client is RECONNECTING sets reconnectAttempts and reconnectStart to 0 and
\* emits RECONNECTING -> CONNECTED; reconnectStart stays 0 (and with it
\* reconnectAttempts) until the next failure signal, and a failure signal that
\* then finds the client CONNECTED emits CONNECTED -> RECONNECTING and schedules
\* one timer, for attempt 0, with delay 0.
C16_SuccessResetsAttempts ==
    /\ [](client.reconnectStart = 0 => client.reconnectAttempts = 0)
    /\ [][/\ (lastOp' = "attemptSucceeded"
                    /\ client.connectionState = "RECONNECTING") =>
                /\ client'.reconnectAttempts = 0
                /\ client'.reconnectStart = 0
                /\ emitted' = <<[curr |-> "CONNECTED", prev |-> "RECONNECTING",
                                 reason |-> "none"]>>
          /\ (lastOp' # "failure" /\ client.reconnectStart = 0) =>
                client'.reconnectStart = 0
          /\ (lastOp' = "failure" /\ client.connectionState = "CONNECTED"
                    /\ client.reconnectStart = 0) =>
                /\ emitted' = <<[curr |-> "RECONNECTING", prev |-> "CONNECTED",
                                 reason |-> "none"]>>
                /\ client'.reconnectAttempts = 0
                /\ Scheduled(timers, timers') = {[remaining |-> 0]}
                /\ BagCardinality(timers') = BagCardinality(timers) + 1]_vars

\* C16 witness: a reconnect attempt succeeded while the client was RECONNECTING
C16_Witness ==
    /\ lastOp = "attemptSucceeded"
    /\ emitted = <<[curr |-> "CONNECTED", prev |-> "RECONNECTING", reason |-> "none"]>>

\* a reconnect callback whose socket was opening has left that step
Opened(old, new) ==
    \E a \in DOMAIN old : a.pc = "wsOpening" /\ CopiesIn(a, new) < CopiesIn(a, old)

\* C17: a step of a reconnect callback never writes "create"; "claim" is
\* written only by the callback whose socket opens, only when a session id is
\* stored, and the session id stays as it is; when the socket of a callback
\* opens (or fails to) and no session id is stored, nothing is written, none
\* is stored, the callback does not go on to a later await, and the error its
\* catch block gets for the opened socket is INVALID_OPERATION (WS_ERR for the
\* socket that failed, none when that failure is only logged).
C17_ReconnectClaimsSession ==
    [][/\ sent' = "create" => attempts' = attempts
       /\ sent' = "claim" =>
            /\ Opened(attempts, attempts')
            /\ signal.sessionId
            /\ signal'.sessionId
       /\ (Opened(attempts, attempts') /\ ~signal.sessionId) =>
            /\ sent' = "none"
            /\ ~signal'.sessionId
            /\ Scheduled(attempts, attempts') = {}
            /\ caught' \in {"INVALID_OPERATION", "WS_ERR", "none"}
            /\ (signal'.ws /\ caught' # "none") => caught' = "INVALID_OPERATION"]_vars

\* C17 witness: the socket of a reconnect opened with a server but no session
\* id stored, and the attempt failed with INVALID_OPERATION
C17_Witness ==
    /\ lastOp = "attemptFailed"
    /\ caught = "INVALID_OPERATION"
    /\ signal.server # ""
    /\ signal.ws
    /\ ~signal.sessionId

\* C18: a request sent with ignoreAck is never settled by an ack, only by a
\* message of another type or by its timeout: the first ack that comes for it
\* leaves it pending and its listener as it is; the first ack that comes for a
\* pending request sent without ignoreAck, unless close() has removed its
\* listener, resolves it.
C18_AckSettlesUnlessIgnored ==
    [][\A tid \in DOMAIN requests :
        LET r == requests[tid]
            r2 == requests'[tid]
        IN  /\ (r.ignoreAck /\ r.state = "pending" /\ r2.state # "pending") =>
                  r2.by \in {"message", "timeout"}
            /\ (r.state = "pending" /\ ~r.acked /\ r2.acked) =>
                  IF r.ignoreAck
                  THEN /\ r2.state = "pending"
                       /\ transactionEmitter' = transactionEmitter
                  ELSE tid \in transactionEmitter =>
                            /\ r2.state = "resolved"
                            /\ r2.by = "ack"]_vars

\* C18 witness: a request sent with ignoreAck got its ack and was resolved by
\* a later message
C18_Witness ==
    \E tid \in DOMAIN requests :
        /\ requests[tid].ignoreAck
        /\ requests[tid].sent
        /\ requests[tid].acked
        /\ requests[tid].state = "resolved"
        /\ requests[tid].by = "message"

\* C19: a request settled by its timeout is rejected with SIGNAL_ERROR, the
\* message of which quotes the request, and has no listener; it stays so, and a
\* frame that comes for it afterwards changes nothing in the signal client.
C19_TimeoutRejectsAndUnregisters ==
    /\ [](\A tid \in DOMAIN requests :
            requests[tid].by = "timeout" =>
                /\ requests[tid].state = "rejected"
                /\ requests[tid].error = "SIGNAL_ERROR"
                /\ requests[tid].info = requests[tid].kind
                /\ tid \notin transactionEmitter)
    /\ [][\A tid \in DOMAIN requests :
            requests[tid].by = "timeout" =>
                /\ requests'[tid].by = "timeout"
                /\ requests'[tid] # requests[tid] =>
                      /\ signal' = signal
                      /\ transactionEmitter' = transactionEmitter
                      /\ ignoreAckRequests' = ignoreAckRequests
                      /\ \A other \in DOMAIN requests \ {tid} :
                            requests'[other] = requests[other]]_vars

\* C19 witness: a frame came for a request after its timeout had rejected it
C19_Witness ==
    \E tid \in DOMAIN requests :
        /\ requests[tid].by = "timeout"
        /\ requests[tid].got # "none"

\* C20: the frame of type success, error or event that comes for a pending
\* request (one whose listener close() has not removed) with an error object,
\* top-level or nested in plugindata.data, rejects it with SIGNAL_ERROR; no
\* request is resolved by a frame of such a shape.
C20_ErrorPayloadRejects ==
    /\ [](\A tid \in DOMAIN requests :
            (requests[tid].state = "resolved" /\ requests[tid].by = "message"
                    /\ ~requests[tid].late) =>
                requests[tid].got = "plain")
    /\ [][\A tid \in DOMAIN requests :
            (/\ requests[tid].state = "pending"
             /\ tid \in transactionEmitter
             /\ requests[tid].got = "none"
             /\ requests'[tid].got \in {"error", "pluginError"}) =>
                /\ requests'[tid].state = "rejected"
                /\ requests'[tid].by = "message"
                /\ requests'[tid].error = "SIGNAL_ERROR"]_vars

\* C20 witness: a request sent with ignoreAck was rejected by a frame with a
\* nested plugindata.data.error
C20_Witness ==
    \E tid \in DOMAIN requests :
        /\ requests[tid].ignoreAck
        /\ requests[tid].state = "rejected"
        /\ requests[tid].by = "message"
        /\ requests[tid].got = "pluginError"

\* C21: a request for the publisher or the subscriber handle that is made
\* while the id of that handle is not set fails at once with
\* UNEXPECTED_ERROR: nothing is written to the socket and no listener is
\* registered for its transaction.
C21_NoHandleFailsWithoutSending ==
    [][\A tid \in DOMAIN requests' \ DOMAIN requests :
        LET r == requests'[tid]
            missing == \/ r.kind = "publisherMessage" /\ ~signal.publisherId
                       \/ r.kind = "subscriberMessage" /\ ~signal.subscriberId
        IN  missing =>
                /\ r.state = "rejected"
                /\ r.by = "throw"
                /\ r.error = "UNEXPECTED_ERROR"
                /\ ~r.sent
                /\ transactionEmitter' = transactionEmitter]_vars

\* C21 witness: a request for a handle was refused for want of the handle id
\* while a socket was open
C21_Witness ==
    \E tid \in DOMAIN requests :
        /\ requests[tid].kind \in {"publisherMessage", "subscriberMessage"}
        /\ requests[tid].by = "throw"
        /\ ~requests[tid].sent
        /\ tid \notin transactionEmitter
        /\ signal.ws

\* C22 (as stated): the client is joined (isJoined, with no join() awaiting
\* its joinPublisher) only when a joinPublisher has succeeded, that is when
\* the signal client holds the room id of a successful join.
C22_JoinedOnlyAfterSuccess ==
    (client.isJoined /\ calls.join.pc = "idle") => signal.roomId

\* C23 (as stated): when the listener of a subscribe finds its (user, kind)
\* slot bound and resolves the call, the slot then holds the call's track
\* object and that object holds a media track (it is not stopped).
C23_RebindLeavesLiveTrack ==
    [][\A t \in DOMAIN tasks :
        LET task == tasks[t]
            kind == KindOf(task.track.mid)
        IN  (/\ task.pc = "awaitingTrack"
             /\ tasks'[t].pc = "resolved"
             /\ Slot(remoteUsers, task.userId, kind) # 0) =>
                /\ Slot(remoteUsers', task.userId, kind) = task.track.id
                /\ mediaStreamTrack'[task.track.id] # NoMedia]_vars

\* C24 (as stated): a doSubscribe sends the incremental "subscribe" request
\* only after a joinSubscriber has returned a subscription since the last
\* reset, so that the table of a response has been applied to the track map.
C24_SubscribeOnlyAfterJoin ==
    [][\A t \in DOMAIN tasks' :
        (/\ tasks'[t].pc = "subscribing"
         /\ t \in DOMAIN tasks => tasks[t].pc # "subscribing") =>
            lastRows # <<>>]_vars

\* C25 (as stated): when a subscribe resolves, the media track that its
\* RemoteTrack object holds, if it holds one, is the inbound track made by the
\* call's own negotiation.
C25_ResolvesOnOwnTrack ==
    [][\A t \in DOMAIN tasks :
        (tasks[t].pc # "resolved" /\ tasks'[t].pc = "resolved") =>
            mediaStreamTrack'[tasks[t].track.id] \in {NoMedia, t}]_vars

\* C26 (as stated): after close() no keepalive timer is active: when the
\* client is DISCONNECTED (the signal client is new or closed), no socket is
\* current and no connect() or reconnect attempt is under way, the signal
\* client holds no interval timer.
C26_NoTimerAfterClose ==
    (/\ client.connectionState = "DISCONNECTED"
     /\ ~signal.ws
     /\ calls.connect.pc = "idle"
     /\ attempts = EmptyBag
     /\ timers = EmptyBag) => ~signal.keepAliveTimerId

\* C27 (as stated): a timer of onmute emits user-unpublished only when the
\* track has stayed muted since the mute that set it: a mute followed by an
\* unmute within the 2 s emits nothing.
C27_MuteGrace ==
    [][lastOp' = "unpublishedByTimer" =>
            \A timer \in inbound.pending \ inbound'.pending :
                inbound.muted /\ inbound.episode = timer.episode]_vars

\* C28 (as stated): the body of a configure request sent for local tracks
\* that carry bitrate budgets has bitrate = (sum of the audio budgets + sum of
\* the video budgets) x 1000, also when no video track carries one.
C28_BitrateIsSumOfBudgets ==
    \A tid \in DOMAIN requests :
        LET tracks == requests[tid].tracks
            sum == Bitrate(tracks, "audio") + Bitrate(tracks, "video")
        IN  (requests[tid].sent /\ sum > 0) => requests[tid].bitrate = sum * 1000

\* C29 (as stated): once a request has settled, neither the transaction
\* emitter holds a listener for its transaction id nor ignoreAckRequests an
\* entry for it.
C29_NoStateAfterSettle ==
    \A tid \in DOMAIN requests :
        requests[tid].state # "pending" =>
            (tid \notin transactionEmitter /\ tid \notin ignoreAckRequests)

\* C30: a request that was pending when close() ran is not settled by a
\* frame that comes later with its transaction id: it stays pending until its
\* own timeout rejects it with SIGNAL_ERROR, which does happen.
C30_ClosedRequestsEndByTimeout ==
    /\ [](\A tid \in DOMAIN requests :
            requests[tid].closed =>
                \/ requests[tid].state = "pending"
                \/ /\ requests[tid].state = "rejected"
                   /\ requests[tid].by = "timeout"
                   /\ requests[tid].error = "SIGNAL_ERROR")
    /\ \A tid \in 1..MaxRequests :
            (tid \in DOMAIN requests /\ requests[tid].closed)
                ~> (tid \in DOMAIN requests /\ requests[tid].by = "timeout")

\* C30 witness: a request was pending when close() ran, a frame of type
\* success, error or event came for it afterwards, and its timeout rejected it
C30_Witness ==
    \E tid \in DOMAIN requests :
        /\ requests[tid].closed
        /\ requests[tid].got # "none"
        /\ requests[tid].by = "timeout"

\* C31 (as stated): while a doSubscribe is in flight, the track map is written
\* only by that doSubscribe applying its response, and no reconnect callback
\* completes an ICE restart negotiation on the subscriber peer connection.
C31_OnlyDoSubscribeMutates ==
    [][(\E t \in DOMAIN tasks : tasks[t].pc \in InFlightSteps) =>
          /\ trackMap' # trackMap =>
                \E t \in DOMAIN tasks : /\ tasks[t].pc \in {"joining", "subscribing"}
                                        /\ tasks'[t].pc # tasks[t].pc
          /\ ~(lastOp' = "attemptSucceeded" /\ client.subscriberPc)]_vars

\* C32 (as stated): the trickle message that sendCandidate writes for a local
\* candidate carries that candidate, and only sendCandidateCompleted writes the
\* completion notice { completed: true }.
C32_TrickleCarriesCandidate ==
    \A tid \in DOMAIN requests :
        LET r == requests[tid]
        IN  r.sent =>
              /\ r.kind = "sendCandidate" => r.candidate = r.local
              /\ r.candidate = Completed => r.kind = "sendCandidateCompleted"

\* C33 (as stated): in every reachable state, a client that has a publisher
\* peer connection remembers at least one published track.
C33_PublisherHasTracks == client.publisherPc => client.publishedTracks > 0

\* C34 (as stated): while the client is DISCONNECTING and no connect() is in
\* flight, no step other than a new failure signal (in particular no reconnect
\* timer or reconnect callback that was pending when leave() began) moves it to
\* a state other than DISCONNECTED.
C34_LeaveStopsReconnect ==
    [][(/\ client.connectionState = "DISCONNECTING"
        /\ calls.connect.pc = "idle"
        /\ lastOp' # "failure") =>
          client'.connectionState \in {"DISCONNECTING", "DISCONNECTED"}]_vars

\* C35 (as stated, last part): a doSubscribe of a queue that reset() has
\* replaced is never in flight together with a doSubscribe of the current queue.
C35_NoOldDoSubscribeBesideNew ==
    ~\E t, u \in DOMAIN tasks :
        /\ tasks[t].pc \in InFlightSteps /\ tasks[t].queue # subscribeQueue
        /\ tasks[u].pc \in InFlightSteps /\ tasks[u].queue = subscribeQueue

\* C36 (as stated): whenever the client is CONNECTED, the signal client has a
\* socket, a session id and the handle id of an attached publisher handle.
C36_ConnectedHasSessionAndHandle ==
    client.connectionState = "CONNECTED" =>
        signal.ws /\ signal.sessionId /\ signal.publisherId

\* C37 (as stated): when createSession fails in the open handler of connect(),
\* so that connect() rejects, the signal client is not marked connected and has
\* no keepalive timer.
C37_FailedSessionNotConnected ==
    [][(calls.connect.pc = "creating" /\ calls'.connect.pc = "idle") =>
          ~signal'.isConnected /\ ~signal'.keepAliveTimerId]_vars

\* C38 (as stated): the mute, unmute and ended events of one inbound track
\* make the client emit user-unpublished at most once.
C38_UnpublishedAtMostOnce == inbound.unpublished <= 1

\* C39 (as stated): every subscribe() call eventually settles, resolved or
\* rejected.
C39_SubscribeSettles ==
    \A t \in 1..MaxSubscribes :
        (t \in DOMAIN tasks) ~>
            (t \in DOMAIN tasks /\ tasks[t].pc \in {"resolved", "rejected"})

\* C40 (as stated): when a connect() ends without having made the client
\* CONNECTED, it leaves the client DISCONNECTED.
C40_FailedConnectDisconnects ==
    [][(/\ calls.connect.pc # "idle"
        /\ calls'.connect.pc = "idle"
        /\ client'.connectionState # "CONNECTED") =>
          client'.connectionState = "DISCONNECTED"]_vars

=============================================================================
